---- MODULE Spec2Model ----
(***************************************************************************)
(* Model of src/webapp/static/app.js.  The file holds two programs:        *)
(*   lines 1-71    the Range Selector page script (JavaScript);            *)
(*   lines 73-112  the Process Supervisor launcher (bash).                 *)
(*                                                                         *)
(* Numbers.  Seconds are held as integers in hundredths of a second, so    *)
(* 0.5 is 50 and 60 is 6000.  The inputs are one-decimal values and the    *)
(* quarter points x.25 / x.75.  Both kinds behave in IEEE doubles as they  *)
(* do here: a quarter point is an exact double, so toFixed(1) sees a true  *)
(* tie and takes the larger digit; a one-decimal value is never within     *)
(* 0.04 of a tie, and every value the script writes back went through      *)
(* toFixed(1), which absorbs the last-bit error of start + 0.5.            *)
(***************************************************************************)
EXTENDS Integers, Sequences, FiniteSets, TLC

\* ------------------------------------------------------------------------
\* Bounds of the model (not program constants)
\* ------------------------------------------------------------------------
\* half-width, in tenths of a second, of the input windows around 0, 10, 60
NormRadius == 10
\* the same for the values a slider edit may propose in the page model
EditRadius == 3
\* a value "far beyond 60", in tenths of a second (and its negative)
FarTenths == 10000

\* ------------------------------------------------------------------------
\* Program constants
\* ------------------------------------------------------------------------
MaxSeconds == 6000
MinWidth == 50

Anchors == {0, 1000, 6000}

InputValues(radius) ==
  { v \in -(radius * 10) .. (6000 + radius * 10) :
       /\ \E c \in Anchors : v >= c - radius * 10 /\ v <= c + radius * 10
       /\ (v % 10 = 0 \/ v % 100 = 25 \/ v % 100 = 75) }
    \cup { -(FarTenths * 10), FarTenths * 10 }

NormInputs == InputValues(NormRadius)
EditInputs == InputValues(EditRadius)

DatasetValues == {"true", "false", "unset"}

VARIABLES
  startRange,     \* startRange.value, as the number Number() reads from it
  endRange,       \* endRange.value, likewise
  startValue,     \* startValue.textContent "<d.d>s", as the number shown
  endValue,       \* endValue.textContent, likewise
  muteToggle,     \* muteToggle.dataset.active
  audioToggle,    \* audioToggle.dataset.active
  previewButton,  \* previewButton.classList contains "active"
  tg,             \* window.Telegram?.WebApp is defined
  uiPc,           \* "off", "load" (script not yet run), "ready", "closed"
  calls,          \* calls made on the host / window by the latest handler
  event,          \* the handler that ran last: "none", "load", "inputStart",
                  \* "inputEnd", "mute", "audio", "preview", "submit"
  lastNorm,       \* <<start, end>> written by the latest clampRanges call
  normPc,         \* "idle", "proposed", "once", "twice"
  inA, inB,       \* the proposed pair handed to normalize
  out1,           \* the pair after the first normalize
  supPc,          \* the launcher's position (see the Supervisor section)
  PYTHONPATH,     \* "unset" or "set" in the launcher's environment
  uvicorn,        \* `command -v uvicorn` succeeds
  TELEGRAM_BOT_TOKEN,  \* "unset", "" or "secret"
  API_PID, WORKER_PID, BOT_PID,  \* "" or the child whose pid it holds
  child,          \* per child: "none", "running", "exited"
  stopSent,       \* per child: signals sent to its pid by kill (line 106)
  stopFailed,     \* children whose kill found no such process
  waitReturned,   \* children whose wait (line 107) has returned
  trapSet,        \* `trap cleanup EXIT` has run
  termsig,        \* the fatal signal whose exit trap is running, else 0
  signals,        \* fatal signals delivered to the launcher so far
  cleanupRuns,    \* times cleanup was entered
  exitStatus      \* the launcher's exit status, -1 while it runs

uiVars == <<startRange, endRange, startValue, endValue, muteToggle,
            audioToggle, previewButton, tg, uiPc, calls, event, lastNorm>>
normVars == <<normPc, inA, inB, out1>>
supVars == <<supPc, PYTHONPATH, uvicorn, TELEGRAM_BOT_TOKEN, API_PID,
             WORKER_PID, BOT_PID, child, stopSent, stopFailed, waitReturned,
             trapSet, termsig, signals, cleanupRuns, exitStatus>>
vars == <<uiVars, normVars, supVars>>

\* ------------------------------------------------------------------------
\* Pure helpers
\* ------------------------------------------------------------------------
Min(x, y) == IF x <= y THEN x ELSE y
Max(x, y) == IF x >= y THEN x ELSE y

\* Number.prototype.toFixed(1) followed by Number(): nearest tenth, a tie
\* going to the larger magnitude (the sign is split off first).
toFixed1(x) ==
  IF x >= 0 THEN ((x + 5) \div 10) * 10
            ELSE -((((-x) + 5) \div 10) * 10)

\* Step1 widening only a reversed pair
Step1Reversed(p) ==
  IF p.end - p.start < 0
    THEN [p EXCEPT !.end = Min(MaxSeconds, p.start + MinWidth)]
    ELSE p

\* lines 18-20
Step1(p) ==
  IF p.end - p.start < MinWidth
    THEN [p EXCEPT !.end = Min(MaxSeconds, p.start + MinWidth)]
    ELSE p
\* lines 21-23
Step2(p) == IF p.end > MaxSeconds THEN [p EXCEPT !.end = MaxSeconds] ELSE p
\* lines 24-26
Step3(p) == IF p.start < 0 THEN [p EXCEPT !.start = 0] ELSE p
\* lines 27-29
Step4(p) ==
  IF p.start >= p.end
    THEN [p EXCEPT !.start = Max(0, p.end - MinWidth)]
    ELSE p

\* lines 16-29: the local start / end after the four steps
Clamped(s, e) == Step4(Step3(Step2(Step1([start |-> s, end |-> e]))))

\* normalize writing the clamped values back without toFixed(1)
normalizeUnrounded(s, e) == Clamped(s, e)

\* lines 16-33: what is written back to the sliders and shown
normalize(s, e) ==
  LET p == Clamped(s, e)
  IN  [start |-> toFixed1(p.start), end |-> toFixed1(p.end)]

\* clampRanges(), lines 15-34, run on sliders holding s and e
clampRanges(s, e) ==
  LET r == normalize(s, e)
  IN  /\ startRange' = r.start
      /\ endRange' = r.end
      /\ startValue' = r.start
      /\ endValue' = r.end
      /\ lastNorm' = <<r.start, r.end>>

\* button.dataset.active === "true" (lines 40, 55, 56)
Active(dataset) == dataset = "true"

\* toggleButton switching the flag on instead of inverting it
toggleButtonOn(dataset) == "true"

\* lines 39-42: the new dataset.active, (!active).toString()
toggleButton(dataset) == IF Active(dataset) THEN "false" ELSE "true"

\* payload without lines 59-61
payloadNoOverride ==
  [start |-> startRange, end |-> endRange,
   mute |-> Active(muteToggle), audioOnly |-> Active(audioToggle)]

\* lines 52-61: the payload object after the audioOnly override
payload ==
  LET p == [start |-> startRange, end |-> endRange,
            mute |-> Active(muteToggle), audioOnly |-> Active(audioToggle)]
  IN  IF p.audioOnly THEN [p EXCEPT !.mute = FALSE] ELSE p

\* JSONstringify of a payload built without Number(): the bounds are text
JSONstringifyText(p) ==
  << [key |-> "start", type |-> "string", num |-> p.start, bool |-> FALSE],
     [key |-> "end", type |-> "string", num |-> p.end, bool |-> FALSE],
     [key |-> "mute", type |-> "boolean", num |-> 0, bool |-> p.mute],
     [key |-> "audioOnly", type |-> "boolean", num |-> 0,
      bool |-> p.audioOnly] >>

\* JSON.stringify of the payload: its members in insertion order, each
\* with the JSON type it is written as
JSONstringify(p) ==
  << [key |-> "start", type |-> "number", num |-> p.start, bool |-> FALSE],
     [key |-> "end", type |-> "number", num |-> p.end, bool |-> FALSE],
     [key |-> "mute", type |-> "boolean", num |-> 0, bool |-> p.mute],
     [key |-> "audioOnly", type |-> "boolean", num |-> 0,
      bool |-> p.audioOnly] >>

Call(fn, arg) == [fn |-> fn, arg |-> arg]

\* Deliver closing the panel before it sends
DeliverCloseFirst(p) ==
  IF tg THEN << Call("close", <<>>), Call("sendData", JSONstringify(p)) >>
        ELSE << Call("alert", JSONstringify(p)) >>

\* lines 63-68: what the submit handler calls
Deliver(p) ==
  IF tg THEN << Call("sendData", JSONstringify(p)), Call("close", <<>>) >>
        ELSE << Call("alert", JSONstringify(p)) >>

\* ------------------------------------------------------------------------
\* Range Selector: the page (lines 1-71)
\* ------------------------------------------------------------------------
supIdle ==
  /\ supPc = "off" /\ PYTHONPATH = "unset" /\ uvicorn = FALSE
  /\ TELEGRAM_BOT_TOKEN = "unset"
  /\ API_PID = "" /\ WORKER_PID = "" /\ BOT_PID = ""
  /\ child = [c \in {"api", "worker", "bot"} |-> "none"]
  /\ stopSent = [c \in {"api", "worker", "bot"} |-> 0]
  /\ stopFailed = {} /\ waitReturned = {}
  /\ trapSet = FALSE /\ termsig = 0 /\ signals = 0 /\ cleanupRuns = 0
  /\ exitStatus = -1

normIdle == normPc = "idle" /\ inA = 0 /\ inB = 0 /\ out1 = <<0, 0>>

uiIdle ==
  /\ startRange = 0 /\ endRange = 0 /\ startValue = 0 /\ endValue = 0
  /\ muteToggle = "unset" /\ audioToggle = "unset"
  /\ previewButton = FALSE /\ tg = FALSE /\ uiPc = "off" /\ calls = <<>>
  /\ event = "none" /\ lastNorm = <<>>

\* the document as the markup leaves it, before the script runs
Init ==
  /\ startRange \in EditInputs /\ endRange \in EditInputs
  /\ startValue = 0 /\ endValue = 0
  /\ muteToggle \in DatasetValues /\ audioToggle \in DatasetValues
  /\ previewButton = FALSE
  /\ tg \in BOOLEAN
  /\ uiPc = "load" /\ calls = <<>>
  /\ event = "none" /\ lastNorm = <<>>
  /\ normIdle /\ supIdle

\* PageLoad without the clampRanges() call of line 71
PageLoadNoClamp ==
  /\ uiPc = "load"
  /\ calls' = IF tg THEN << Call("expand", <<>>) >> ELSE <<>>
  /\ uiPc' = "ready"
  /\ event' = "load"
  /\ UNCHANGED <<startRange, endRange, startValue, endValue, lastNorm>>
  /\ UNCHANGED <<muteToggle, audioToggle, previewButton, tg>>
  /\ UNCHANGED <<normVars, supVars>>

\* the script's top level: lines 10-13, the listeners, line 71
PageLoad ==
  /\ uiPc = "load"
  /\ calls' = IF tg THEN << Call("expand", <<>>) >> ELSE <<>>
  /\ clampRanges(startRange, endRange)
  /\ uiPc' = "ready"
  /\ event' = "load"
  /\ UNCHANGED <<muteToggle, audioToggle, previewButton, tg>>
  /\ UNCHANGED <<normVars, supVars>>

\* line 36: the start slider is moved to v, then clampRanges runs
InputStart ==
  /\ uiPc = "ready"
  /\ \E v \in EditInputs : clampRanges(v, endRange)
  /\ calls' = <<>>
  /\ event' = "inputStart"
  /\ UNCHANGED <<muteToggle, audioToggle, previewButton, tg, uiPc>>
  /\ UNCHANGED <<normVars, supVars>>

\* line 37: the end slider is moved to v, then clampRanges runs
InputEnd ==
  /\ uiPc = "ready"
  /\ \E v \in EditInputs : clampRanges(startRange, v)
  /\ calls' = <<>>
  /\ event' = "inputEnd"
  /\ UNCHANGED <<muteToggle, audioToggle, previewButton, tg, uiPc>>
  /\ UNCHANGED <<normVars, supVars>>

\* line 44
ClickMute ==
  /\ uiPc = "ready"
  /\ muteToggle' = toggleButton(muteToggle)
  /\ calls' = <<>>
  /\ event' = "mute"
  /\ UNCHANGED <<startRange, endRange, startValue, endValue, audioToggle,
                 previewButton, tg, uiPc, lastNorm>>
  /\ UNCHANGED <<normVars, supVars>>

\* line 45
ClickAudio ==
  /\ uiPc = "ready"
  /\ audioToggle' = toggleButton(audioToggle)
  /\ calls' = <<>>
  /\ event' = "audio"
  /\ UNCHANGED <<startRange, endRange, startValue, endValue, muteToggle,
                 previewButton, tg, uiPc, lastNorm>>
  /\ UNCHANGED <<normVars, supVars>>

\* lines 47-49
ClickPreview ==
  /\ uiPc = "ready"
  /\ previewButton' = ~previewButton
  /\ calls' = <<>>
  /\ event' = "preview"
  /\ UNCHANGED <<startRange, endRange, startValue, endValue, muteToggle,
                 audioToggle, tg, uiPc, lastNorm>>
  /\ UNCHANGED <<normVars, supVars>>

\* ClickSubmit writing the audioOnly override back to the mute toggle
ClickSubmitStoresOverride ==
  /\ uiPc = "ready"
  /\ calls' = Deliver(payload)
  /\ uiPc' = IF tg THEN "closed" ELSE "ready"
  /\ event' = "submit"
  /\ muteToggle' = IF Active(audioToggle) THEN "false" ELSE muteToggle
  /\ UNCHANGED <<startRange, endRange, startValue, endValue,
                 audioToggle, previewButton, tg, lastNorm>>
  /\ UNCHANGED <<normVars, supVars>>

\* lines 51-69; tg.close() ends the page
ClickSubmit ==
  /\ uiPc = "ready"
  /\ calls' = Deliver(payload)
  /\ uiPc' = IF tg THEN "closed" ELSE "ready"
  /\ event' = "submit"
  /\ UNCHANGED <<startRange, endRange, startValue, endValue, muteToggle,
                 audioToggle, previewButton, tg, lastNorm>>
  /\ UNCHANGED <<normVars, supVars>>

Next ==
  \/ PageLoad
  \/ InputStart
  \/ InputEnd
  \/ ClickMute
  \/ ClickAudio
  \/ ClickPreview
  \/ ClickSubmit

Spec == Init /\ [][Next]_vars

\* ------------------------------------------------------------------------
\* normalize as a function of a proposed pair: clampRanges applied to
\* sliders holding (a, b), and then applied again to what it wrote
\* ------------------------------------------------------------------------
InitNormalize ==
  /\ startRange \in NormInputs /\ endRange \in NormInputs
  /\ inA = startRange /\ inB = endRange
  /\ startValue = 0 /\ endValue = 0
  /\ out1 = <<0, 0>>
  /\ normPc = "proposed"
  /\ muteToggle = "unset" /\ audioToggle = "unset"
  /\ previewButton = FALSE /\ tg = FALSE /\ uiPc = "off" /\ calls = <<>>
  /\ event = "none" /\ lastNorm = <<>>
  /\ supIdle

NormalizeOnce ==
  /\ normPc = "proposed"
  /\ clampRanges(startRange, endRange)
  /\ out1' = <<startRange', endRange'>>
  /\ normPc' = "once"
  /\ UNCHANGED <<inA, inB, muteToggle, audioToggle, previewButton, tg,
                 uiPc, calls, event>>
  /\ UNCHANGED supVars

NormalizeAgain ==
  /\ normPc = "once"
  /\ clampRanges(startRange, endRange)
  /\ normPc' = "twice"
  /\ UNCHANGED <<inA, inB, out1, muteToggle, audioToggle, previewButton, tg,
                 uiPc, calls, event>>
  /\ UNCHANGED supVars

NextNormalize ==
  \/ NormalizeOnce
  \/ NormalizeAgain

SpecNormalize == InitNormalize /\ [][NextNormalize]_vars

\* ------------------------------------------------------------------------
\* Process Supervisor: the launcher (lines 73-112)
\*
\* supPc: "env" 74-78, "check" 80-83, "api" 85-88, "worker" 90-93,
\* "bot" 95-102, "trap" 104-110, "wait" 112, "kill" 105-106, "cwait" 107,
\* "exited".  Running is the steady-state wait of line 112.
\* ------------------------------------------------------------------------
\* fatal signals sent to the launcher at most this many times (bound)
MaxSignals == 2

Children == {"api", "worker", "bot"}
\* SIGINT, SIGTERM
FatalSignals == {2, 15}

Started == {c \in Children : child[c] # "none"}
Running == supPc = "wait"
Exited == supPc = "exited"

\* the arguments of kill and wait in cleanup: "$API_PID" "$WORKER_PID"
\* ${BOT_PID:+$BOT_PID}
PidArgs == {API_PID, WORKER_PID} \cup (IF BOT_PID # "" THEN {BOT_PID} ELSE {})

InitSupervisor ==
  /\ supPc = "env"
  /\ PYTHONPATH \in {"unset", "set"}
  /\ uvicorn \in BOOLEAN
  /\ TELEGRAM_BOT_TOKEN \in {"unset", "", "secret"}
  /\ API_PID = "" /\ WORKER_PID = "" /\ BOT_PID = ""
  /\ child = [c \in Children |-> "none"]
  /\ stopSent = [c \in Children |-> 0]
  /\ stopFailed = {} /\ waitReturned = {}
  /\ trapSet = FALSE /\ termsig = 0 /\ signals = 0 /\ cleanupRuns = 0
  /\ exitStatus = -1
  /\ uiIdle /\ normIdle

\* lines 74-78: under `set -u` expanding an unset PYTHONPATH is fatal
SetEnv ==
  /\ supPc = "env"
  /\ IF PYTHONPATH = "unset"
       THEN supPc' = "exited" /\ exitStatus' = 1
       ELSE supPc' = "check" /\ UNCHANGED exitStatus
  /\ UNCHANGED <<PYTHONPATH, uvicorn, TELEGRAM_BOT_TOKEN, API_PID, WORKER_PID,
                 BOT_PID, child, stopSent, stopFailed, waitReturned, trapSet,
                 termsig, signals, cleanupRuns>>
  /\ UNCHANGED <<uiVars, normVars>>

\* CheckUvicorn reporting the missing tool without the exit of line 82
CheckUvicornNoExit ==
  /\ supPc = "check"
  /\ supPc' = "api"
  /\ UNCHANGED <<PYTHONPATH, uvicorn, TELEGRAM_BOT_TOKEN, API_PID, WORKER_PID,
                 BOT_PID, child, stopSent, stopFailed, waitReturned, trapSet,
                 termsig, signals, cleanupRuns, exitStatus>>
  /\ UNCHANGED <<uiVars, normVars>>

\* lines 80-83
CheckUvicorn ==
  /\ supPc = "check"
  /\ IF ~uvicorn
       THEN supPc' = "exited" /\ exitStatus' = 1
       ELSE supPc' = "api" /\ UNCHANGED exitStatus
  /\ UNCHANGED <<PYTHONPATH, uvicorn, TELEGRAM_BOT_TOKEN, API_PID, WORKER_PID,
                 BOT_PID, child, stopSent, stopFailed, waitReturned, trapSet,
                 termsig, signals, cleanupRuns>>
  /\ UNCHANGED <<uiVars, normVars>>

\* LaunchApi with the two launches swapped: the worker goes first
LaunchApiWorkerFirst ==
  /\ supPc = "api"
  /\ child' = [child EXCEPT !["worker"] = "running"]
  /\ WORKER_PID' = "worker"
  /\ supPc' = "worker"
  /\ UNCHANGED <<PYTHONPATH, uvicorn, TELEGRAM_BOT_TOKEN, API_PID, BOT_PID,
                 stopSent, stopFailed, waitReturned, trapSet, termsig,
                 signals, cleanupRuns, exitStatus>>
  /\ UNCHANGED <<uiVars, normVars>>

\* lines 85-88
LaunchApi ==
  /\ supPc = "api"
  /\ child' = [child EXCEPT !["api"] = "running"]
  /\ API_PID' = "api"
  /\ supPc' = "worker"
  /\ UNCHANGED <<PYTHONPATH, uvicorn, TELEGRAM_BOT_TOKEN, WORKER_PID, BOT_PID,
                 stopSent, stopFailed, waitReturned, trapSet, termsig,
                 signals, cleanupRuns, exitStatus>>
  /\ UNCHANGED <<uiVars, normVars>>

\* lines 90-93
LaunchWorker ==
  /\ supPc = "worker"
  /\ child' = [child EXCEPT !["worker"] = "running"]
  /\ WORKER_PID' = "worker"
  /\ supPc' = "bot"
  /\ UNCHANGED <<PYTHONPATH, uvicorn, TELEGRAM_BOT_TOKEN, API_PID, BOT_PID,
                 stopSent, stopFailed, waitReturned, trapSet, termsig,
                 signals, cleanupRuns, exitStatus>>
  /\ UNCHANGED <<uiVars, normVars>>

\* LaunchBot testing that the token is set rather than non-empty
LaunchBotIfSet ==
  /\ supPc = "bot"
  /\ IF TELEGRAM_BOT_TOKEN # "unset"
       THEN /\ child' = [child EXCEPT !["bot"] = "running"]
            /\ BOT_PID' = "bot"
       ELSE /\ BOT_PID' = ""
            /\ UNCHANGED child
  /\ supPc' = "trap"
  /\ UNCHANGED <<PYTHONPATH, uvicorn, TELEGRAM_BOT_TOKEN, API_PID, WORKER_PID,
                 stopSent, stopFailed, waitReturned, trapSet, termsig,
                 signals, cleanupRuns, exitStatus>>
  /\ UNCHANGED <<uiVars, normVars>>

\* lines 95-102: [[ -n "${TELEGRAM_BOT_TOKEN:-}" ]]
LaunchBot ==
  /\ supPc = "bot"
  /\ IF TELEGRAM_BOT_TOKEN \notin {"unset", ""}
       THEN /\ child' = [child EXCEPT !["bot"] = "running"]
            /\ BOT_PID' = "bot"
       ELSE /\ BOT_PID' = ""
            /\ UNCHANGED child
  /\ supPc' = "trap"
  /\ UNCHANGED <<PYTHONPATH, uvicorn, TELEGRAM_BOT_TOKEN, API_PID, WORKER_PID,
                 stopSent, stopFailed, waitReturned, trapSet, termsig,
                 signals, cleanupRuns, exitStatus>>
  /\ UNCHANGED <<uiVars, normVars>>

\* lines 104-110
ArmTrap ==
  /\ supPc = "trap"
  /\ trapSet' = TRUE
  /\ supPc' = "wait"
  /\ UNCHANGED <<PYTHONPATH, uvicorn, TELEGRAM_BOT_TOKEN, API_PID, WORKER_PID,
                 BOT_PID, child, stopSent, stopFailed, waitReturned, termsig,
                 signals, cleanupRuns, exitStatus>>
  /\ UNCHANGED <<uiVars, normVars>>

\* line 112 returns once no child is left running; the script ends and the
\* EXIT trap enters cleanup
SteadyWaitReturns ==
  /\ supPc = "wait"
  /\ \A c \in Children : child[c] # "running"
  /\ cleanupRuns' = cleanupRuns + 1
  /\ supPc' = "kill"
  /\ UNCHANGED <<PYTHONPATH, uvicorn, TELEGRAM_BOT_TOKEN, API_PID, WORKER_PID,
                 BOT_PID, child, stopSent, stopFailed, waitReturned, trapSet,
                 termsig, signals, exitStatus>>
  /\ UNCHANGED <<uiVars, normVars>>

\* SIGINT / SIGTERM reaches the launcher.  No trap names a signal, so bash
\* takes its default: run the EXIT trap if one is set and not already
\* running, then die of the signal (status 128 + n).  While the EXIT trap
\* runs, a further signal ends the shell at once, cleanup unfinished; only
\* a signal other than the one being handled, arriving before the wait of
\* line 107, is dropped.
Signal ==
  /\ supPc \notin {"off", "exited"}
  /\ signals < MaxSignals
  /\ signals' = signals + 1
  /\ \E sig \in FatalSignals :
       IF trapSet /\ supPc = "wait"
         THEN /\ termsig' = sig
              /\ cleanupRuns' = cleanupRuns + 1
              /\ supPc' = "kill"
              /\ UNCHANGED exitStatus
         ELSE IF supPc = "kill" /\ termsig \notin {0, sig}
           THEN UNCHANGED <<supPc, termsig, cleanupRuns, exitStatus>>
           ELSE /\ supPc' = "exited"
                /\ exitStatus' = 128 + sig
                /\ UNCHANGED <<termsig, cleanupRuns>>
  /\ UNCHANGED <<PYTHONPATH, uvicorn, TELEGRAM_BOT_TOKEN, API_PID, WORKER_PID,
                 BOT_PID, child, stopSent, stopFailed, waitReturned, trapSet>>
  /\ UNCHANGED <<uiVars, normVars>>

\* CleanupKill without `|| true`: a pid that is gone fails the command
\* and, under `set -e`, ends the script before line 107
CleanupKillAbort ==
  /\ supPc = "kill"
  /\ stopSent' = [c \in Children |->
                    IF c \in PidArgs THEN stopSent[c] + 1 ELSE stopSent[c]]
  /\ stopFailed' = {c \in PidArgs : child[c] = "exited"}
  /\ IF stopFailed' # {}
       THEN supPc' = "exited" /\ exitStatus' = 1
       ELSE supPc' = "cwait" /\ UNCHANGED exitStatus
  /\ UNCHANGED <<PYTHONPATH, uvicorn, TELEGRAM_BOT_TOKEN, API_PID, WORKER_PID,
                 BOT_PID, child, waitReturned, trapSet, termsig, signals,
                 cleanupRuns>>
  /\ UNCHANGED <<uiVars, normVars>>

\* lines 105-106: kill signals every pid it is given; a pid that is gone
\* is an error for that pid only, and `|| true` swallows the status
CleanupKill ==
  /\ supPc = "kill"
  /\ stopSent' = [c \in Children |->
                    IF c \in PidArgs THEN stopSent[c] + 1 ELSE stopSent[c]]
  /\ stopFailed' = {c \in PidArgs : child[c] = "exited"}
  /\ supPc' = "cwait"
  /\ UNCHANGED <<PYTHONPATH, uvicorn, TELEGRAM_BOT_TOKEN, API_PID, WORKER_PID,
                 BOT_PID, child, waitReturned, trapSet, termsig, signals,
                 cleanupRuns, exitStatus>>
  /\ UNCHANGED <<uiVars, normVars>>

\* lines 107-108, then the shell exits: wait returns when every pid it was
\* given has exited; the status is that of line 112, or the signal's
CleanupWait ==
  /\ supPc = "cwait"
  /\ \A c \in PidArgs : child[c] = "exited"
  /\ waitReturned' = PidArgs
  /\ exitStatus' = IF termsig # 0 THEN 128 + termsig ELSE 0
  /\ supPc' = "exited"
  /\ UNCHANGED <<PYTHONPATH, uvicorn, TELEGRAM_BOT_TOKEN, API_PID, WORKER_PID,
                 BOT_PID, child, stopSent, stopFailed, trapSet, termsig,
                 signals, cleanupRuns>>
  /\ UNCHANGED <<uiVars, normVars>>

\* a child process ends, of its own accord or because it was signalled
ChildExit ==
  /\ \E c \in Children :
       /\ child[c] = "running"
       /\ child' = [child EXCEPT ![c] = "exited"]
  /\ UNCHANGED <<supPc, PYTHONPATH, uvicorn, TELEGRAM_BOT_TOKEN, API_PID,
                 WORKER_PID, BOT_PID, stopSent, stopFailed, waitReturned,
                 trapSet, termsig, signals, cleanupRuns, exitStatus>>
  /\ UNCHANGED <<uiVars, normVars>>

\* a child that was sent the stop request ends
StoppedChildExit ==
  /\ ChildExit
  /\ \E c \in Children :
       stopSent[c] > 0 /\ child[c] = "running" /\ child'[c] = "exited"

NextSupervisor ==
  \/ SetEnv
  \/ CheckUvicorn
  \/ LaunchApi
  \/ LaunchWorker
  \/ LaunchBot
  \/ ArmTrap
  \/ SteadyWaitReturns
  \/ Signal
  \/ CleanupKill
  \/ CleanupWait
  \/ ChildExit

SpecSupervisor == InitSupervisor /\ [][NextSupervisor]_vars

\* bash runs the next command of cleanup as soon as it can, and a child
\* that was sent SIGTERM ends
FairSupervisor ==
  /\ SpecSupervisor
  /\ WF_vars(CleanupKill)
  /\ WF_vars(CleanupWait)
  /\ WF_vars(StoppedChildExit)

\* ------------------------------------------------------------------------
\* Properties of normalize (checked under SpecNormalize)
\* ------------------------------------------------------------------------
ValidPair(s, e) ==
  /\ 0 <= s /\ s < e /\ e <= MaxSeconds
  /\ e - s >= MinWidth

\* C1: for every proposed pair (negative, zero, equal, reversed, far beyond
\* 60) the pair normalize leaves in the sliders satisfies
\* 0 <= start < end <= 60 and end - start >= 0.5.
InvariantPreservation ==
  normPc = "once" => ValidPair(startRange, endRange)

\* C2: normalize applied to its own output returns that output.
Idempotence ==
  normPc = "twice" => <<startRange, endRange>> = out1

\* C3: normalize(59.8, 61) ends with end = 60 and start = 59.5.
UpperClampExample ==
  (normPc = "once" /\ inA = 5980 /\ inB = 6100)
    => (endRange = 6000 /\ startRange = 5950)

MinimumWidthCase ==
  normPc = "once" /\ 0 <= inA /\ inA <= 5950 /\ inB - inA < 50

\* C4 as stated: when 0 <= start <= 59.5 and end - start < 0.5, normalize
\* leaves start unchanged and returns end = start + 0.5.
MinimumWidthRule ==
  MinimumWidthCase => (startRange = inA /\ endRange = inA + 50)

\* C4 amended: in that case normalize returns start rounded to one decimal
\* place and end = start + 0.5 rounded to one decimal place, so a start
\* given to one decimal is unchanged and its end is start + 0.5;
\* normalize(10, 10.2) = (10.0, 10.5) and normalize(0, 0) = (0, 0.5).
MinimumWidthRuleRounded ==
  /\ MinimumWidthCase =>
       /\ startRange = toFixed1(inA)
       /\ endRange = toFixed1(inA + 50)
       /\ (inA % 10 = 0 => startRange = inA /\ endRange = inA + 50)
  /\ (normPc = "once" /\ inA = 1000 /\ inB = 1020)
       => (startRange = 1000 /\ endRange = 1050)
  /\ (normPc = "once" /\ inA = 0 /\ inB = 0)
       => (startRange = 0 /\ endRange = 50)

\* normalize(10.25, 10.3) has run and left (10.3, 10.8)
MinimumWidthReached ==
  /\ normPc = "once" /\ inA = 1025 /\ inB = 1030
  /\ startRange = 1030 /\ endRange = 1080

\* ------------------------------------------------------------------------
\* Properties of submit (checked under Spec)
\* ------------------------------------------------------------------------
\* the JSON text handed to sendData or alert by the latest handler
Submitted == Len(calls) > 0 /\ calls[1].fn \in {"sendData", "alert"}
Sent == calls[1].arg

\* C5: at every submit the payload's audioOnly is the stored audioOnly
\* toggle, and its mute is false when audioOnly is on and the stored mute
\* toggle otherwise.
CrossFieldOverride ==
  [][ClickSubmit =>
       LET json == calls'[1].arg
       IN  /\ json[4].key = "audioOnly"
           /\ json[4].bool = Active(audioToggle)
           /\ json[3].key = "mute"
           /\ json[3].bool = IF Active(audioToggle) THEN FALSE
                                                    ELSE Active(muteToggle)]_vars

\* a submit with both toggles on has sent mute = false, audioOnly = true
OverrideReached ==
  /\ Submitted /\ Active(muteToggle) /\ Active(audioToggle)
  /\ Sent[3].bool = FALSE /\ Sent[4].bool = TRUE

\* C6: host or no host, the payload of every submit has exactly the four
\* members start, end, mute, audioOnly; start and end are numbers equal to
\* the stored bounds at submit, mute and audioOnly are booleans.
PayloadShape ==
  [][ClickSubmit =>
       LET json == calls'[1].arg
       IN  /\ calls'[1].fn = (IF tg THEN "sendData" ELSE "alert")
           /\ [i \in DOMAIN json |-> json[i].key]
                = <<"start", "end", "mute", "audioOnly">>
           /\ [i \in DOMAIN json |-> json[i].type]
                = <<"number", "number", "boolean", "boolean">>
           /\ json[1].num = startRange
           /\ json[2].num = endRange
           /\ json[3].bool \in BOOLEAN /\ json[4].bool \in BOOLEAN]_vars

\* a standalone submit of the bounds (10.0, 10.5) has been shown
ShapeReached ==
  /\ Submitted /\ ~tg /\ Len(Sent) = 4
  /\ startRange = 1000 /\ endRange = 1050
  /\ Sent[1].num = 1000 /\ Sent[2].num = 1050

\* C7: with a host, a submit hands the payload to the host exactly once
\* and then asks it to close; without one, it neither delivers nor closes
\* but shows the payload, and the page stays usable.
SubmitDelivery ==
  [][ClickSubmit =>
       LET fns == [i \in DOMAIN calls' |-> calls'[i].fn]
       IN  IF tg
             THEN /\ fns = <<"sendData", "close">>
                  /\ calls'[1].arg = JSONstringify(payload)
                  /\ uiPc' = "closed"
             ELSE /\ fns = <<"alert">>
                  /\ calls'[1].arg = JSONstringify(payload)
                  /\ uiPc' = "ready"]_vars

\* a submit under a host has delivered and then closed the panel
DeliveryReached ==
  /\ tg /\ uiPc = "closed" /\ Len(calls) = 2
  /\ calls[1].fn = "sendData" /\ calls[2].fn = "close"

\* ------------------------------------------------------------------------
\* Properties of the supervisor (checked under SpecSupervisor)
\* ------------------------------------------------------------------------
\* C8: once the termination signal was received in Running, the stop
\* request goes to exactly the children that were started, once each, and
\* the supervisor does not exit before the wait on each of them returned.
ShutdownCompleteness ==
  (termsig # 0 /\ Exited) =>
     /\ \A c \in Children : stopSent[c] = (IF c \in Started THEN 1 ELSE 0)
     /\ waitReturned = Started

\* C9: in Running the started processes are exactly api and worker when
\* TELEGRAM_BOT_TOKEN is unset or empty, and exactly api, worker and bot
\* when it is non-empty; the missing token does not end the supervisor.
ConditionalStart ==
  Running =>
     /\ Started = (IF TELEGRAM_BOT_TOKEN \in {"unset", ""}
                     THEN {"api", "worker"}
                     ELSE {"api", "worker", "bot"})
     /\ (BOT_PID # "") = ("bot" \in Started)
     /\ exitStatus = -1

\* Running was reached with an empty token and two processes
TwoProcessesReached ==
  Running /\ TELEGRAM_BOT_TOKEN = "" /\ Started = {"api", "worker"}

\* C10: without uvicorn the supervisor starts no child, never reaches
\* Running, and its exit status is non-zero.
FastFailure ==
  ~uvicorn =>
     /\ Started = {}
     /\ supPc \in {"env", "check", "exited"}
     /\ (Exited => exitStatus > 0)

\* the prerequisite check of lines 80-83 has ended the supervisor
FastFailureReached ==
  /\ ~uvicorn /\ PYTHONPATH = "set" /\ signals = 0
  /\ Exited /\ exitStatus = 1 /\ Started = {}

\* the signal-initiated cleanup ran to its end (lines 105-108) before exit
CleanShutdown == termsig # 0 /\ Exited /\ waitReturned = PidArgs

\* C11: the termination trigger is handled once; a second trigger during
\* shutdown does not re-enter cleanup (no child gets a second stop request)
\* and the shutdown in progress still completes.
IdempotentShutdown ==
  /\ cleanupRuns <= 1
  /\ \A c \in Children : stopSent[c] <= 1
  /\ (termsig # 0 /\ signals >= 2 /\ Exited) =>
        /\ \A c \in Started : stopSent[c] = 1
        /\ waitReturned = Started

\* C12: the supervisor exits with status zero after a clean shutdown
\* (trigger received in Running, all children stopped and waited on) and
\* with a non-zero status when uvicorn is absent.
ExitStatusContract ==
  /\ CleanShutdown => exitStatus = 0
  /\ (Exited /\ ~uvicorn) => exitStatus > 0

\* C13: for every proposed pair with both bounds in [0, 60], the pair left
\* by normalize has end - start >= 0.5.
WidthInsideDomain ==
  (/\ normPc = "once"
   /\ 0 <= inA /\ inA <= MaxSeconds
   /\ 0 <= inB /\ inB <= MaxSeconds)
     => endRange - startRange >= MinWidth

\* ------------------------------------------------------------------------
\* Frame properties of the page handlers (checked under Spec)
\* ------------------------------------------------------------------------
\* C14: a submit, with or without a host, leaves the stored mute toggle,
\* the stored audioOnly toggle and the stored bounds as they were; the
\* override shows only in the payload's mute.
SubmitLeavesState ==
  [][event' = "submit" =>
       /\ UNCHANGED <<muteToggle, audioToggle, startRange, endRange>>
       /\ calls'[1].arg[3].bool
            = (Active(muteToggle') /\ ~Active(audioToggle'))]_vars

\* a submit under a host sent mute = false and both toggles are still on
StateKeptReached ==
  /\ event = "submit" /\ tg
  /\ muteToggle = "true" /\ audioToggle = "true"
  /\ Sent[3].bool = FALSE

\* C15: a click on the mute toggle inverts the stored mute state and leaves
\* audioOnly and the bounds alone; a click on the audioOnly toggle inverts
\* audioOnly and leaves mute and the bounds alone; a second click on the
\* same toggle restores its state.
ToggleInvertsOneFlag ==
  [][/\ event' = "mute" =>
          /\ Active(muteToggle') = ~Active(muteToggle)
          /\ Active(toggleButton(muteToggle')) = Active(muteToggle)
          /\ UNCHANGED <<audioToggle, startRange, endRange>>
     /\ event' = "audio" =>
          /\ Active(audioToggle') = ~Active(audioToggle)
          /\ Active(toggleButton(audioToggle')) = Active(audioToggle)
          /\ UNCHANGED <<muteToggle, startRange, endRange>>]_vars

\* audioOnly was just switched on and the mute flag is still on
ToggleReached ==
  event = "audio" /\ Active(audioToggle) /\ Active(muteToggle)

\* C20: clampRanges runs at page load and after every edit and no other
\* handler writes the bounds, so the start and end of every payload are
\* the pair written by the latest clampRanges call.
SubmitReadsNormalized ==
  /\ [](uiPc \in {"ready", "closed"} => lastNorm = <<startRange, endRange>>)
  /\ [][event' = "submit" =>
          lastNorm = <<calls'[1].arg[1].num, calls'[1].arg[2].num>>]_vars

\* a submit after a preview click carried the normalized pair (59.5, 60.0)
NormalizedSubmitReached ==
  /\ event = "submit" /\ previewButton
  /\ lastNorm = <<5950, 6000>>
  /\ Sent[1].num = 5950 /\ Sent[2].num = 6000

\* ------------------------------------------------------------------------
\* Further properties of the supervisor
\* ------------------------------------------------------------------------
\* C16 (checked under FairSupervisor): when the stop of a child fails
\* because it has already exited, line 106 still sends the stop request to
\* every other started child and line 107 is still run, its wait covering
\* every started child, and the supervisor reaches Terminated.
ContinueOnError ==
  /\ [][(supPc = "kill" /\ supPc' # "kill" /\ signals' = signals) =>
          /\ \A c \in Started : stopSent'[c] = stopSent[c] + 1
          /\ stopFailed' = {c \in Started : child[c] = "exited"}
          /\ supPc' = "cwait"]_vars
  /\ [][(supPc = "cwait" /\ supPc' # "cwait" /\ signals' = signals) =>
          /\ waitReturned' = Started
          /\ Exited']_vars
  /\ (supPc = "cwait" /\ stopFailed # {}) ~> Exited

\* one child was already gone when cleanup ran; the others were stopped
\* and all were waited on
ContinueOnErrorReached ==
  /\ Exited /\ stopFailed # {} /\ stopFailed # Started
  /\ \A c \in Started : stopSent[c] = 1
  /\ waitReturned = Started

\* C17: api is launched before worker, worker before bot, and Running (the
\* wait of line 112, handler armed) is entered only after these launches
\* and the one credential check.
LaunchOrder ==
  /\ child["worker"] # "none" => child["api"] # "none"
  /\ child["bot"] # "none" => child["worker"] # "none"
  /\ supPc \in {"env", "check", "api"} => Started = {}
  /\ trapSet => supPc \in {"wait", "kill", "cwait", "exited"}
  /\ Running =>
       /\ trapSet
       /\ {"api", "worker"} \subseteq Started
       /\ ("bot" \in Started) = (TELEGRAM_BOT_TOKEN \notin {"unset", ""})

\* Running with all three processes launched and the handler armed
ThreeProcessesReached ==
  /\ Running /\ trapSet /\ signals = 0
  /\ TELEGRAM_BOT_TOKEN = "secret" /\ Started = Children

\* C19: whenever the supervisor exits after launching at least one child,
\* every launched child has been sent a stop request and waited on.
NoOrphans ==
  (Exited /\ Started # {}) =>
     /\ \A c \in Started : stopSent[c] >= 1
     /\ waitReturned = Started

\* ------------------------------------------------------------------------
\* Precision of the stored bounds (checked under SpecNormalize)
\* ------------------------------------------------------------------------
\* the four steps of lines 18-29 change neither proposed bound
NeedsNoClamping == Clamped(inA, inB) = [start |-> inA, end |-> inB]

\* C18 as stated: a stored bound that needs no clamping keeps its full
\* precision when normalize runs; only the displayed text is rounded.
StoredPrecision ==
  (normPc = "once" /\ NeedsNoClamping) =>
     (startRange = inA /\ endRange = inB)

\* C18 amended: normalize writes both bounds back to the sliders rounded
\* to one decimal place, so the stored values equal the displayed ones; a
\* bound that needs no clamping is stored as its one-decimal rounding
\* (10.25 becomes 10.3) and is unchanged only if it had one decimal.
StoredOneDecimal ==
  normPc \in {"once", "twice"} =>
     /\ startRange % 10 = 0 /\ endRange % 10 = 0
     /\ startValue = startRange /\ endValue = endRange
     /\ (normPc = "once" /\ NeedsNoClamping) =>
          /\ startRange - inA \in -5 .. 5
          /\ endRange - inB \in -5 .. 5
     /\ (normPc = "once" /\ inA = 1025 /\ inB = 1100) =>
          (startRange = 1030 /\ endRange = 1100)

\* normalize(10.25, 11) has run and stored (10.3, 11.0)
RoundedStoreReached ==
  /\ normPc = "once" /\ inA = 1025 /\ inB = 1100 /\ NeedsNoClamping
  /\ startRange = 1030 /\ endRange = 1100

====
